---- MODULE Spec2Model ----
(***************************************************************************)
(* Model of ngi_pipeline/conductor/flowcell.py: sorting demultiplexed      *)
(* flowcells into Project / Sample / LibraryPrep / SequencingRun trees.    *)
(* Names, paths and file names are sequences of one-character strings so   *)
(* that str.replace, os.path.join, str.format, glob and the fastq regular  *)
(* expression are computed, not assumed.                                   *)
(***************************************************************************)
EXTENDS Integers, Sequences, FiniteSets, TLC

\* ------------------------------------------------------------------------
\* Bounds
MaxFiles == 2      \* entries listed in one sample directory
MaxInputs == 2     \* length of the demux_fcid_dirs argument
MaxName == 4       \* characters of a directory name after its prefix

\* ------------------------------------------------------------------------
\* String helpers (strings are sequences of characters)

StartsWith(s, p) == Len(s) >= Len(p) /\ SubSeq(s, 1, Len(p)) = p

EndsWith(s, p) == Len(s) >= Len(p) /\ SubSeq(s, Len(s) - Len(p) + 1, Len(s)) = p

Tail_n(s, n) == SubSeq(s, n + 1, Len(s))

\* str.replace(old, new): non-overlapping occurrences, left to right
RECURSIVE Replace(_, _, _)
Replace(s, old, new) ==
    IF s = <<>> THEN <<>>
    ELSE IF StartsWith(s, old) THEN new \o Replace(Tail_n(s, Len(old)), old, new)
    ELSE <<Head(s)>> \o Replace(Tail(s), old, new)

\* os.path.join(a, b) for a relative b
Join(a, b) == a \o <<"/">> \o b

Range(s) == {s[i] : i \in 1..Len(s)}

\* ------------------------------------------------------------------------
\* Literals
Project_ == <<"P","r","o","j","e","c","t","_">>
Sample_ == <<"S","a","m","p","l","e","_">>
Unaligned == <<"U","n","a","l","i","g","n","e","d">>
DATA == <<"D","A","T","A">>
dot_fastq == <<".","f","a","s","t","q">>
dot_fq == <<".","f","q">>
dot_gz == <<".","g","z">>
dot_gzip == <<".","g","z","i","p">>
dot_bz2 == <<".","b","z","2">>

\* re.compile(".*\.(fastq|fq)(\.gz|\.gzip|\.bz2)?$").match(name)
pattern_match(name) ==
    \E ext \in {dot_fastq, dot_fq} :
        \E comp \in {<<>>, dot_gz, dot_gzip, dot_bz2} :
            EndsWith(name, ext \o comp)

\* glob of "*.fastq.gz" inside a directory: fnmatch on the base name; a "*"
\* at the start of a pattern does not match a leading dot
fastq_file_pattern_match(name) ==
    /\ EndsWith(name, dot_fastq \o dot_gz)
    /\ name[1] # "."

\* ------------------------------------------------------------------------
\* The environment the program reads: flowcell directories, the analysis
\* top directory, and the Charon registry.  Directory contents and registry
\* answers are drawn from the catalogues below when the program first reads
\* them and are then fixed (fs, charon).

top_dir == <<"/","t">>                 \* os.path.abspath(config["analysis"]["top_dir"])
r1 == <<"/","r","1">>                  \* flowcell directories that can be passed in
r2 == <<"/","r","2">>
FcDirs == {r1, r2}

PA == Project_ \o <<"A">>              \* Project_A
PB == Project_ \o <<"B","_","_","C">>  \* Project_B__C, canonical name B.C
SX == Sample_ \o <<"X">>               \* Sample_X
SY == Sample_ \o <<"Y","_","_","Z">>   \* Sample_Y__Z, canonical name Y.Z
Undetermined == <<"U","n","d","e","t","e","r","m","i","n","e","d","_","i","n","d","i","c","e","s">>
Slane1 == Sample_ \o <<"l","a","n","e","1">>

name_A == <<"A">>
name_BC == <<"B",".","C">>
name_Q == <<"Q">>
name_X == <<"X">>
name_YZ == <<"Y",".","Z">>

a_fastq_gz == <<"a">> \o dot_fastq \o dot_gz
b_fastq_gz == <<"b">> \o dot_fastq \o dot_gz
c_fq_bz2 == <<"c">> \o dot_fq \o dot_bz2
d_bam == <<"d",".","b","a","m">>

\* the order in which glob lists a directory that holds every catalogue file
FileOrder == <<b_fastq_gz, a_fastq_gz, c_fq_bz2, d_bam>>

\* the sub-lists of FileOrder with at most n entries
RECURSIVE SubLists(_, _)
SubLists(s, n) ==
    IF s = <<>> \/ n = 0 THEN {<<>>}
    ELSE SubLists(Tail(s), n)
         \cup {<<Head(s)>> \o t : t \in SubLists(Tail(s), n - 1)}

RichListings == SubLists(FileOrder, MaxFiles)
PlainListings == {<<>>, <<a_fastq_gz>>}

SampleDir(d, files) == [dir |-> d, files |-> files]
ProjectDir(d, samples) == [data_dir |-> Unaligned, dir |-> d, samples |-> samples]

\* what glob finds under <fc_dir>/Unaligned*/ : project directories, each with
\* its sample directories, plus the Undetermined_indices directory every
\* CASAVA run writes
Layouts(xListings) ==
    LET U == ProjectDir(Undetermined, <<SampleDir(Slane1, <<a_fastq_gz>>)>>)
        Y == SampleDir(SY, <<b_fastq_gz>>)
    IN  {<<U>>}
        \cup UNION {
              { <<ProjectDir(PA, <<SampleDir(SX, l)>>), U>>,
                <<ProjectDir(PA, <<SampleDir(SX, l), Y>>), U>>,
                <<U, ProjectDir(PA, <<Y, SampleDir(SX, l)>>)>>,
                <<ProjectDir(PA, <<SampleDir(SX, l)>>), U,
                  ProjectDir(PB, <<SampleDir(SX, <<a_fastq_gz>>)>>)>> }
              : l \in xListings }

\* RunInfo.xml / runParameters.xml as FlowcellRunMetricsParser returns them
RunMetrics1 == [run_info |-> [Flowcell |-> <<"X">>, Date |-> <<"1">>],
                runparams |-> [FCPosition |-> <<"A">>]]
RunMetrics2 == [run_info |-> [Flowcell |-> <<"Y">>, Date |-> <<"1">>],
                runparams |-> [FCPosition |-> <<"A">>]]
RunMetricsNoDate == [run_info |-> [Flowcell |-> <<"X">>],
                     runparams |-> [FCPosition |-> <<"A">>]]

Missing == [exists |-> FALSE, metrics |-> RunMetricsNoDate, unaligned |-> <<>>]

\* the possible contents of a flowcell directory
FlowcellContents(fc) ==
    {Missing}
    \cup {[exists |-> TRUE, metrics |-> RunMetricsNoDate, unaligned |-> <<>>]}
    \cup {[exists |-> TRUE, metrics |-> m, unaligned |-> u] :
            m \in (IF fc = r1 THEN {RunMetrics1} ELSE {RunMetrics1, RunMetrics2}),
            u \in Layouts(IF fc = r1 THEN RichListings ELSE PlainListings)}

\* Charon answers
RuntimeError == "RuntimeError"
ValueError == "ValueError"
id_A == <<"P","1">>
id_BC == <<"P","2">>
lib_A == <<"A">>
lib_B == <<"B">>

Returns(v) == [ok |-> TRUE, val |-> v, exc |-> "none"]
Raises(e) == [ok |-> FALSE, val |-> <<>>, exc |-> e]

\* get_project_id_from_name(project_name): an id, or CharonError (a
\* RuntimeError) or ValueError
ProjectAnswers(project_name) ==
    IF project_name = name_A THEN {Returns(id_A), Raises(RuntimeError)}
    ELSE IF project_name = name_BC THEN {Returns(id_BC), Raises(ValueError)}
    ELSE {Raises(ValueError)}

\* determine_library_prep_from_fcid(project_id, sample_name, fcid)
LibprepAnswers(pid, sample_name, fcid) ==
    IF pid = id_A /\ sample_name = name_X
    THEN (IF fcid = <<"A","X">> THEN {Returns(lib_A), Raises(ValueError)}
          ELSE {Returns(lib_A), Returns(lib_B), Raises(ValueError)})
    ELSE {Returns(lib_A)}

\* ------------------------------------------------------------------------
\* parse_casava_directory

\* glob.glob(os.path.join(sample_dir, "*.fastq.gz")), base names
glob_fastq_files(files) == SelectSeq(files, fastq_file_pattern_match)

\* one entry of project_samples
\* variant: the sample name keeps its double underscores
sample_entry_prefix_only(sd) ==
    [sample_dir |-> sd.dir,
     sample_name |-> Replace(sd.dir, Sample_, <<>>),
     files |-> glob_fastq_files(sd.files)]

sample_entry(sd) ==
    [sample_dir |-> sd.dir,
     sample_name |-> Replace(Replace(sd.dir, Sample_, <<>>), <<"_","_">>, <<".">>),
     files |-> glob_fastq_files(sd.files)]

IsSampleDir(sd) == StartsWith(sd.dir, Sample_)
IsProjectDir(pd) == StartsWith(pd.dir, Project_)

RECURSIVE sample_entries(_)
sample_entries(sds) ==
    IF sds = <<>> THEN <<>>
    ELSE <<sample_entry(Head(sds))>> \o sample_entries(Tail(sds))

\* one entry of projects
project_entry(pd) ==
    [data_dir |-> pd.data_dir,
     project_dir |-> pd.dir,
     project_name |-> Replace(Replace(pd.dir, Project_, <<>>), <<"_","_">>, <<".">>),
     samples |-> sample_entries(SelectSeq(pd.samples, IsSampleDir))]

RECURSIVE project_entries(_)
project_entries(pds) ==
    IF pds = <<>> THEN <<>>
    ELSE <<project_entry(Head(pds))>> \o project_entries(Tail(pds))

\* parse_casava_directory raises RuntimeError when a run metric is missing
parse_raises(content) ==
    ~ ({"Flowcell", "Date"} \subseteq DOMAIN content.metrics.run_info
       /\ "FCPosition" \in DOMAIN content.metrics.runparams)

\* the dict parse_casava_directory returns
parse_casava_directory(fc, content) ==
    [fc_dir |-> fc,
     fc_name |-> content.metrics.runparams.FCPosition
                   \o content.metrics.run_info.Flowcell,
     fc_date |-> content.metrics.run_info.Date,
     projects |-> project_entries(SelectSeq(content.unaligned, IsProjectDir))]

\* the run id without the flowcell id
fc_short_run_id_date_only(fc_date, fcid) == fc_date \o <<"_">>

\* "{}_{}".format(fc_date, fcid)
fc_short_run_id(fc_date, fcid) == fc_date \o <<"_">> \o fcid

\* ------------------------------------------------------------------------
\* NGIProject / NGISample / NGILibraryPrep / NGISeqRun

\* position of the child called name in a list of nodes, 0 when absent
IndexOf(nodes, name) ==
    IF \E i \in 1..Len(nodes) : nodes[i].name = name
    THEN CHOOSE i \in 1..Len(nodes) : nodes[i].name = name
    ELSE 0

NGIProject(name, dirname, pid, base_path) ==
    [name |-> name, dirname |-> dirname, project_id |-> pid,
     base_path |-> base_path, samples |-> <<>>]

NGINode(name, dirname) == [name |-> name, dirname |-> dirname, subitems |-> <<>>]

\* get-or-create of a child node by name
add_object(children, name, dirname) ==
    IF IndexOf(children, name) = 0 THEN Append(children, NGINode(name, dirname))
    ELSE children

\* project_obj.add_sample(name, dirname)
add_sample(project, name, dirname) ==
    [project EXCEPT !.samples = add_object(@, name, dirname)]

\* sample_obj.add_libprep(name, dirname)
add_libprep(sample, name, dirname) ==
    [sample EXCEPT !.subitems = add_object(@, name, dirname)]

\* libprep_object.add_seqrun(name, dirname)
add_seqrun(libprep, name, dirname) ==
    [libprep EXCEPT !.subitems = add_object(@, name, dirname)]

\* seqrun_object.add_fastq_files(fq_file): appended unless already listed
add_fastq_files(seqrun, fq_file) ==
    IF fq_file \in Range(seqrun.subitems) THEN seqrun
    ELSE [seqrun EXCEPT !.subitems = Append(@, fq_file)]

\* ------------------------------------------------------------------------
\* State

VARIABLES
    entry,                  \* the entry point that was called
    demux_fcid_dirs,        \* its arguments
    demux_fcid_dirs_set,    \* set(demux_fcid_dirs)
    restrict_to_projects,
    restrict_to_samples,
    disk,                   \* directories that exist under the analysis root
    fs,                     \* flowcell directory contents read so far
    charon,                 \* registry answers given so far
    pc,                     \* position in the program
    todo,                   \* members of demux_fcid_dirs_set not yet iterated
    projects_to_analyze,    \* the shared tree
    fc_dir_structure,       \* locals of setup_analysis_directory_structure
    project_idx,
    sample_idx,
    fastq_idx,
    libprep_idx,
    project_id,
    fastq_files,
    seqrun_object,
    seqrun_dir,
    rsync_calls,            \* do_rsync calls made, in order
    launched,               \* arguments of launch_analysis_for_flowcells calls
    outcome,                \* "running", "launched", "exit" or the exception raised
    error_message,          \* message of sys.exit
    folded,                 \* flowcell directories folded into the current tree
    setup_calls,            \* calls of setup_analysis_directory_structure made,
                            \* per flowcell directory
    dir_name,               \* a directory name to be turned into a node name
    named                   \* the names made of dir_name

args == <<demux_fcid_dirs, demux_fcid_dirs_set>>
inputs == <<entry, restrict_to_projects, restrict_to_samples, dir_name, named>>
env == <<disk, fs, charon>>
locals == <<fc_dir_structure, project_idx, sample_idx, fastq_idx, libprep_idx,
            project_id, fastq_files, seqrun_object, seqrun_dir>>
outputs == <<rsync_calls, launched, outcome, error_message>>
vars == <<args, inputs, env, pc, todo, projects_to_analyze, locals, outputs, folded,
          setup_calls>>

None == <<>>
EmptyFn == [k \in {} |-> FALSE]
Unbound == [project_dir |-> None, sample |-> None, libprep |-> None, seqrun |-> None]
NoStructure == [fc_dir |-> None, fc_name |-> None, fc_date |-> None, projects |-> <<>>]
NoNames == [built |-> FALSE, project_name |-> None, sample_name |-> None]

Dict(items) == [kind |-> "dict", items |-> items]
List == [kind |-> "list", items |-> EmptyFn]

\* the argument lists of at most n entries: r1 once or more, then r2 or not
DirLists(n) ==
    {[i \in 1..k |-> r1] : k \in 1..n}
    \cup {Append([i \in 1..k |-> r1], r2) : k \in 1..(n - 1)}

\* list(set(dirs)) for a list that names one directory
list_of_set(dirs) == IF Cardinality(Range(dirs)) = 1 THEN <<dirs[1]>> ELSE dirs

Init ==
    /\ entry \in {"process_demultiplexed_flowcell", "process_demultiplexed_flowcells"}
    /\ demux_fcid_dirs \in DirLists(MaxInputs)
    /\ demux_fcid_dirs_set = {}
    /\ restrict_to_projects \in {<<>>, <<name_A>>, <<name_Q>>}
    /\ restrict_to_samples \in {<<>>, <<name_X>>}
    /\ disk \in {{}, {top_dir}}
    /\ fs = EmptyFn
    /\ charon = EmptyFn
    /\ pc = "start"
    /\ todo = {}
    /\ projects_to_analyze = Dict(EmptyFn)
    /\ fc_dir_structure = NoStructure
    /\ project_idx = 0
    /\ sample_idx = 0
    /\ fastq_idx = 0
    /\ libprep_idx = 0
    /\ project_id = None
    /\ fastq_files = <<>>
    /\ seqrun_object = Unbound
    /\ seqrun_dir = None
    /\ rsync_calls = <<>>
    /\ launched = <<>>
    /\ outcome = "running"
    /\ error_message = "none"
    /\ folded = {}
    /\ setup_calls = [fc \in FcDirs |-> 0]
    /\ dir_name = None
    /\ named = NoNames

\* ------------------------------------------------------------------------
\* Helpers of the actions

\* sys.exit or an exception nobody catches
Stop(o, msg) ==
    /\ pc' = "done"
    /\ outcome' = o
    /\ error_message' = msg

Ancestors(p) == {SubSeq(p, 1, i - 1) : i \in {j \in 2..Len(p) : p[j] = "/"}}

\* safe_makedir(path, 0770): the directory and its intervening directories
safe_makedir(d, p) == d \cup {p} \cup Ancestors(p)

\* if not os.path.exists(path): safe_makedir(path, 0770)
makedir_if_missing(d, p) == IF p \in d THEN d ELSE safe_makedir(d, p)

\* the registry's answer to a lookup: the one given before, or a new one
Answers(key, fresh) == IF key \in DOMAIN charon THEN {charon[key]} ELSE fresh
Remember(key, a) == IF key \in DOMAIN charon THEN charon ELSE charon @@ (key :> a)

\* the contents of a flowcell directory: as read before, or read now
Answers_fs(fc) == IF fc \in DOMAIN fs THEN {fs[fc]} ELSE FlowcellContents(fc)
Remember_fs(fc, content) == IF fc \in DOMAIN fs THEN fs ELSE fs @@ (fc :> content)

\* except RuntimeError only
Caught_RuntimeError_only(exc) == exc = RuntimeError

\* except (RuntimeError, ValueError)
Caught(exc) == exc \in {RuntimeError, ValueError}

project == fc_dir_structure.projects[project_idx]
project_name == project.project_name
project_dir == Join(Join(top_dir, DATA), project_name)
sample == project.samples[sample_idx]
sample_name == Replace(sample.sample_name, <<"_","_">>, <<".">>)
\* variant: the sample directory is named as in the flowcell
sample_dir_as_in_flowcell == Join(project_dir, sample.sample_dir)

sample_dir == Join(project_dir, sample_name)
fcid == fc_dir_structure.fc_name
run_id == fc_short_run_id(fc_dir_structure.fc_date, fcid)
src_sample_dir ==
    Join(Join(Join(fc_dir_structure.fc_dir, project.data_dir), project.project_dir),
         sample.sample_dir)

project_obj == projects_to_analyze.items[project_dir]
sample_obj == project_obj.samples[IndexOf(project_obj.samples, sample_name)]

\* the node a seqrun_object reference points at
Deref(tree, ref) ==
    LET P == tree.items[ref.project_dir]
        S == P.samples[IndexOf(P.samples, ref.sample)]
        L == S.subitems[IndexOf(S.subitems, ref.libprep)]
    IN  L.subitems[IndexOf(L.subitems, ref.seqrun)]

\* a new NGIProject on every call, whether or not the key is there
get_or_create_project_always_new(items, dir, name, pid) ==
    [k \in DOMAIN items \cup {dir} |->
        IF k = dir THEN NGIProject(name, name, pid, top_dir) ELSE items[k]]

\* projects_to_analyze[project_dir], creating the NGIProject on KeyError
get_or_create_project(items, dir, name, pid) ==
    IF dir \in DOMAIN items THEN items
    ELSE items @@ (dir :> NGIProject(name, name, pid, top_dir))

\* lines 169-177: libprep, seqrun and file added below the sample
assign_fastq(P, sname, libprep_name, run, fq_file) ==
    LET i == IndexOf(P.samples, sname)
        S == add_libprep(P.samples[i], libprep_name, libprep_name)
        j == IndexOf(S.subitems, libprep_name)
        L == add_seqrun(S.subitems[j], run, run)
        k == IndexOf(L.subitems, run)
        R == add_fastq_files(L.subitems[k], fq_file)
    IN  [P EXCEPT !.samples[i] =
            [S EXCEPT !.subitems[j] = [L EXCEPT !.subitems[k] = R]]]

\* ------------------------------------------------------------------------
\* process_demultiplexed_flowcell: more than one flowcell is refused

\* the refusal decided on the length of the list as passed, without set()
process_demultiplexed_flowcell_exit_no_set ==
    /\ pc = "start"
    /\ entry = "process_demultiplexed_flowcell"
    /\ Len(demux_fcid_dirs) > 1
    /\ Stop("exit", "only_one_flowcell")
    /\ UNCHANGED <<args, inputs, env, todo, projects_to_analyze, locals,
                   rsync_calls, launched, folded, setup_calls>>

process_demultiplexed_flowcell_exit ==
    /\ pc = "start"
    /\ entry = "process_demultiplexed_flowcell"
    /\ Len(list_of_set(demux_fcid_dirs)) > 1
    /\ Stop("exit", "only_one_flowcell")
    /\ UNCHANGED <<args, inputs, env, todo, projects_to_analyze, locals,
                   rsync_calls, launched, folded, setup_calls>>

\* process_demultiplexed_flowcells, lines 39-45
process_demultiplexed_flowcells_begin ==
    /\ pc = "start"
    /\ entry = "process_demultiplexed_flowcell" => Len(list_of_set(demux_fcid_dirs)) <= 1
    /\ demux_fcid_dirs_set' = Range(demux_fcid_dirs)
    /\ demux_fcid_dirs' = IF entry = "process_demultiplexed_flowcell"
                          THEN list_of_set(demux_fcid_dirs) ELSE demux_fcid_dirs
    /\ todo' = Range(demux_fcid_dirs)
    /\ projects_to_analyze' = Dict(EmptyFn)
    /\ pc' = "loop"
    /\ UNCHANGED <<inputs, env, locals, outputs, folded, setup_calls>>

\* ------------------------------------------------------------------------
\* setup_analysis_directory_structure, lines 93-117

\* variant: a missing top directory is logged and the flowcell skipped
setup_top_dir_missing_return ==
    /\ pc = "loop"
    /\ \E fc \in todo :
        /\ top_dir \notin disk
        /\ todo' = todo \ {fc}
        /\ setup_calls' = [setup_calls EXCEPT ![fc] = @ + 1]
    /\ projects_to_analyze' = List
    /\ folded' = {}
    /\ UNCHANGED <<args, inputs, env, pc, locals, outputs>>

\* the analysis top directory does not exist: OSError
setup_top_dir_missing ==
    /\ pc = "loop"
    /\ \E fc \in todo :
        /\ top_dir \notin disk
        /\ todo' = todo \ {fc}
        /\ setup_calls' = [setup_calls EXCEPT ![fc] = @ + 1]
        /\ Stop("OSError", "none")
    /\ UNCHANGED <<args, inputs, env, projects_to_analyze, locals,
                   rsync_calls, launched, folded>>

\* the flowcell directory does not exist: return []
setup_fc_dir_missing ==
    /\ pc = "loop"
    /\ top_dir \in disk
    /\ \E fc \in todo :
        \E content \in Answers_fs(fc) :
            /\ ~ content.exists
            /\ fs' = Remember_fs(fc, content)
            /\ todo' = todo \ {fc}
            /\ setup_calls' = [setup_calls EXCEPT ![fc] = @ + 1]
    /\ projects_to_analyze' = List
    /\ folded' = {}
    /\ UNCHANGED <<args, inputs, disk, charon, pc, locals, outputs>>

\* parse_casava_directory raises RuntimeError: return []
setup_parse_error ==
    /\ pc = "loop"
    /\ top_dir \in disk
    /\ \E fc \in todo :
        \E content \in Answers_fs(fc) :
            /\ content.exists
            /\ parse_raises(content)
            /\ fs' = Remember_fs(fc, content)
            /\ todo' = todo \ {fc}
            /\ setup_calls' = [setup_calls EXCEPT ![fc] = @ + 1]
    /\ projects_to_analyze' = List
    /\ folded' = {}
    /\ UNCHANGED <<args, inputs, disk, charon, pc, locals, outputs>>

\* the flowcell is parsed but stays to be iterated again
setup_parsed_again ==
    /\ pc = "loop"
    /\ top_dir \in disk
    /\ \E fc \in todo :
        \E content \in Answers_fs(fc) :
            /\ content.exists
            /\ ~ parse_raises(content)
            /\ fs' = Remember_fs(fc, content)
            /\ todo' = todo
            /\ setup_calls' = [setup_calls EXCEPT ![fc] = @ + 1]
            /\ fc_dir_structure' = parse_casava_directory(fc, content)
    /\ project_idx' = 1
    /\ pc' = "project"
    /\ UNCHANGED <<args, inputs, disk, charon, projects_to_analyze, sample_idx, fastq_idx,
                   libprep_idx, project_id, fastq_files, seqrun_object, seqrun_dir,
                   outputs, folded>>

\* the flowcell is parsed; the loop over its projects starts
setup_parsed ==
    /\ pc = "loop"
    /\ top_dir \in disk
    /\ \E fc \in todo :
        \E content \in Answers_fs(fc) :
            /\ content.exists
            /\ ~ parse_raises(content)
            /\ fs' = Remember_fs(fc, content)
            /\ todo' = todo \ {fc}
            /\ setup_calls' = [setup_calls EXCEPT ![fc] = @ + 1]
            /\ fc_dir_structure' = parse_casava_directory(fc, content)
    /\ project_idx' = 1
    /\ pc' = "project"
    /\ UNCHANGED <<args, inputs, disk, charon, projects_to_analyze, sample_idx, fastq_idx,
                   libprep_idx, project_id, fastq_files, seqrun_object, seqrun_dir,
                   outputs, folded>>

\* ------------------------------------------------------------------------
\* the loop over the projects of the flowcell, lines 119-147

ResetLocals ==
    /\ fc_dir_structure' = NoStructure
    /\ project_idx' = 0
    /\ sample_idx' = 0
    /\ fastq_idx' = 0
    /\ libprep_idx' = 0
    /\ project_id' = None
    /\ fastq_files' = <<>>
    /\ seqrun_object' = Unbound
    /\ seqrun_dir' = None

InProjectLoop == pc = "project" /\ project_idx <= Len(fc_dir_structure.projects)

\* no project is ever skipped
project_restricted_never(name) == FALSE

\* restrict_to_projects and project_name not in restrict_to_projects
project_restricted(name) ==
    restrict_to_projects # <<>> /\ name \notin Range(restrict_to_projects)

\* the project is not one of restrict_to_projects: continue
project_skipped ==
    /\ InProjectLoop
    /\ project_restricted(project_name)
    /\ project_idx' = project_idx + 1
    /\ UNCHANGED <<args, inputs, env, pc, todo, projects_to_analyze, fc_dir_structure,
                   sample_idx, fastq_idx, libprep_idx, project_id, fastq_files,
                   seqrun_object, seqrun_dir, outputs, folded, setup_calls>>

\* get_project_id_from_name raises: logged, continue
project_lookup_failed ==
    /\ InProjectLoop
    /\ ~ project_restricted(project_name)
    /\ \E a \in Answers(<<"project", project_name>>, ProjectAnswers(project_name)) :
        /\ ~ a.ok
        /\ charon' = Remember(<<"project", project_name>>, a)
        /\ IF Caught(a.exc)
           THEN /\ project_idx' = project_idx + 1
                /\ UNCHANGED <<pc, outputs>>
           ELSE /\ Stop(a.exc, "none")
                /\ UNCHANGED <<project_idx, rsync_calls, launched>>
    /\ UNCHANGED <<args, inputs, disk, fs, todo, projects_to_analyze, fc_dir_structure,
                   sample_idx, fastq_idx, libprep_idx, project_id, fastq_files,
                   seqrun_object, seqrun_dir, folded, setup_calls>>

\* the project directory and the NGIProject are there after this step
project_setup ==
    /\ InProjectLoop
    /\ ~ project_restricted(project_name)
    /\ projects_to_analyze.kind = "dict"
    /\ \E a \in Answers(<<"project", project_name>>, ProjectAnswers(project_name)) :
        /\ a.ok
        /\ charon' = Remember(<<"project", project_name>>, a)
        /\ project_id' = a.val
        /\ projects_to_analyze' =
              Dict(get_or_create_project(projects_to_analyze.items, project_dir,
                                         project_name, a.val))
    /\ disk' = makedir_if_missing(disk, project_dir)
    /\ sample_idx' = 1
    /\ pc' = "sample"
    /\ UNCHANGED <<args, inputs, fs, todo, fc_dir_structure, project_idx, fastq_idx,
                   libprep_idx, fastq_files, seqrun_object, seqrun_dir, outputs,
                   folded, setup_calls>>

\* projects_to_analyze is the [] an earlier call returned: indexing it with
\* project_dir raises TypeError, which "except KeyError" does not catch
project_type_error ==
    /\ InProjectLoop
    /\ ~ project_restricted(project_name)
    /\ projects_to_analyze.kind = "list"
    /\ \E a \in Answers(<<"project", project_name>>, ProjectAnswers(project_name)) :
        /\ a.ok
        /\ charon' = Remember(<<"project", project_name>>, a)
        /\ project_id' = a.val
    /\ disk' = makedir_if_missing(disk, project_dir)
    /\ Stop("TypeError", "none")
    /\ UNCHANGED <<args, inputs, fs, todo, projects_to_analyze, fc_dir_structure,
                   project_idx, sample_idx, fastq_idx, libprep_idx, fastq_files,
                   seqrun_object, seqrun_dir, rsync_calls, launched, folded, setup_calls>>

\* return projects_to_analyze
setup_return ==
    /\ pc = "project"
    /\ project_idx > Len(fc_dir_structure.projects)
    /\ pc' = "loop"
    /\ folded' = IF projects_to_analyze.kind = "dict"
                 THEN folded \cup {fc_dir_structure.fc_dir} ELSE folded
    /\ ResetLocals
    /\ UNCHANGED <<args, inputs, env, todo, projects_to_analyze, outputs, setup_calls>>

\* ------------------------------------------------------------------------
\* the loop over the samples of the project, lines 149-165

InSampleLoop == pc = "sample" /\ sample_idx <= Len(project.samples)

\* restrict_to_samples and sample_name not in restrict_to_samples
sample_restricted(name) ==
    restrict_to_samples # <<>> /\ name \notin Range(restrict_to_samples)

sample_skipped ==
    /\ InSampleLoop
    /\ sample_restricted(sample_name)
    /\ sample_idx' = sample_idx + 1
    /\ UNCHANGED <<args, inputs, env, pc, todo, projects_to_analyze, fc_dir_structure,
                   project_idx, fastq_idx, libprep_idx, project_id, fastq_files,
                   seqrun_object, seqrun_dir, outputs, folded, setup_calls>>

\* filter(pattern.match, sample.get('files', []))
filter_fastq(files) == SelectSeq(files, pattern_match)

sample_setup ==
    /\ InSampleLoop
    /\ ~ sample_restricted(sample_name)
    /\ disk' = makedir_if_missing(disk, sample_dir)
    /\ projects_to_analyze' =
          [projects_to_analyze EXCEPT
              !.items[project_dir] = add_sample(@, sample_name, sample_name)]
    /\ fastq_files' = filter_fastq(sample.files)
    /\ seqrun_dir' = None
    /\ fastq_idx' = 1
    /\ pc' = "file"
    /\ UNCHANGED <<args, inputs, fs, charon, todo, fc_dir_structure, project_idx,
                   sample_idx, libprep_idx, project_id, seqrun_object, outputs,
                   folded, setup_calls>>

\* the project's samples are exhausted: next project
samples_done ==
    /\ pc = "sample"
    /\ sample_idx > Len(project.samples)
    /\ project_idx' = project_idx + 1
    /\ pc' = "project"
    /\ UNCHANGED <<args, inputs, env, todo, projects_to_analyze, fc_dir_structure,
                   sample_idx, fastq_idx, libprep_idx, project_id, fastq_files,
                   seqrun_object, seqrun_dir, outputs, folded, setup_calls>>

\* ------------------------------------------------------------------------
\* the loop over the fastq files of the sample, lines 167-177

InFastqLoop == pc = "file" /\ fastq_idx <= Len(fastq_files)

libprep_key == <<"libprep", project_id, sample_name, fcid>>

\* determine_library_prep_from_fcid answers: libprep, seqrun and file are
\* added, their directories made
fastq_assigned ==
    /\ InFastqLoop
    /\ \E a \in Answers(libprep_key, LibprepAnswers(project_id, sample_name, fcid)) :
        /\ a.ok
        /\ charon' = Remember(libprep_key, a)
        /\ projects_to_analyze' =
              [projects_to_analyze EXCEPT
                  !.items[project_dir] =
                      assign_fastq(@, sample_name, a.val, run_id,
                                   fastq_files[fastq_idx])]
        /\ disk' = makedir_if_missing(
                      makedir_if_missing(disk, Join(sample_dir, a.val)),
                      Join(Join(sample_dir, a.val), run_id))
        /\ seqrun_object' = [project_dir |-> project_dir, sample |-> sample_name,
                             libprep |-> a.val, seqrun |-> run_id]
        /\ seqrun_dir' = Join(Join(sample_dir, a.val), run_id)
    /\ fastq_idx' = fastq_idx + 1
    /\ UNCHANGED <<args, inputs, fs, pc, todo, fc_dir_structure, project_idx, sample_idx,
                   libprep_idx, project_id, fastq_files, outputs, folded, setup_calls>>

\* determine_library_prep_from_fcid raises: nothing catches it
libprep_lookup_raised ==
    /\ InFastqLoop
    /\ \E a \in Answers(libprep_key, LibprepAnswers(project_id, sample_name, fcid)) :
        /\ ~ a.ok
        /\ charon' = Remember(libprep_key, a)
        /\ Stop(a.exc, "none")
    /\ UNCHANGED <<args, inputs, disk, fs, todo, projects_to_analyze, locals,
                   rsync_calls, launched, folded, setup_calls>>

\* the sample's fastq files are exhausted: on to the rsync loop
fastq_done ==
    /\ pc = "file"
    /\ fastq_idx > Len(fastq_files)
    /\ libprep_idx' = 1
    /\ pc' = "rsync"
    /\ UNCHANGED <<args, inputs, env, todo, projects_to_analyze, fc_dir_structure,
                   project_idx, sample_idx, fastq_idx, project_id, fastq_files,
                   seqrun_object, seqrun_dir, outputs, folded, setup_calls>>

\* ------------------------------------------------------------------------
\* "for libprep in sample_obj", lines 181-192

InRsyncLoop == pc = "rsync" /\ libprep_idx <= Len(sample_obj.subitems)

\* src_fastq_files of line 189
src_fastq_files(run) ==
    [i \in 1..Len(run.subitems) |-> Join(src_sample_dir, run.subitems[i])]

\* do_rsync(src_fastq_files, seqrun_dir)
rsync_call ==
    /\ InRsyncLoop
    /\ seqrun_object # Unbound
    /\ rsync_calls' = Append(rsync_calls,
          [src |-> src_fastq_files(Deref(projects_to_analyze, seqrun_object)),
           dst |-> seqrun_dir,
           fc_dir |-> fc_dir_structure.fc_dir,
           project_dir |-> project_dir,
           sample_name |-> sample_name,
           run |-> seqrun_object])
    /\ libprep_idx' = libprep_idx + 1
    /\ UNCHANGED <<args, inputs, env, pc, todo, projects_to_analyze, fc_dir_structure,
                   project_idx, sample_idx, fastq_idx, project_id, fastq_files,
                   seqrun_object, seqrun_dir, launched, outcome, error_message,
                   folded, setup_calls>>

\* seqrun_object was never assigned in this call: UnboundLocalError
rsync_name_error ==
    /\ InRsyncLoop
    /\ seqrun_object = Unbound
    /\ Stop("NameError", "none")
    /\ UNCHANGED <<args, inputs, env, todo, projects_to_analyze, locals, rsync_calls,
                   launched, folded, setup_calls>>

\* the sample's libpreps are exhausted: next sample
rsync_done ==
    /\ pc = "rsync"
    /\ libprep_idx > Len(sample_obj.subitems)
    /\ sample_idx' = sample_idx + 1
    /\ pc' = "sample"
    /\ UNCHANGED <<args, inputs, env, todo, projects_to_analyze, fc_dir_structure,
                   project_idx, fastq_idx, libprep_idx, project_id, fastq_files,
                   seqrun_object, seqrun_dir, outputs, folded, setup_calls>>

\* ------------------------------------------------------------------------
\* process_demultiplexed_flowcells, lines 53-71

\* "not projects_to_analyze": an empty dict or the empty list
no_projects == DOMAIN projects_to_analyze.items = {}

\* the message chosen by either restriction list
no_projects_message_any_restriction ==
    IF restrict_to_projects # <<>> \/ restrict_to_samples # <<>>
    THEN "no_projects_restricted"
    ELSE "no_projects_found"

\* the message of lines 54-64
no_projects_message ==
    IF restrict_to_projects # <<>> THEN "no_projects_restricted"
    ELSE "no_projects_found"

no_projects_exit ==
    /\ pc = "loop"
    /\ todo = {}
    /\ no_projects
    /\ Stop("exit", no_projects_message)
    /\ UNCHANGED <<args, inputs, env, todo, projects_to_analyze, locals, rsync_calls,
                   launched, folded, setup_calls>>

\* projects_to_analyze.values()
values(tree) == {tree.items[k] : k \in DOMAIN tree.items}

\* the launcher called whatever the tree holds
launch_unguarded ==
    /\ pc = "loop"
    /\ todo = {}
    /\ launched' = Append(launched, values(projects_to_analyze))
    /\ pc' = "done"
    /\ outcome' = "launched"
    /\ UNCHANGED <<args, inputs, env, todo, projects_to_analyze, locals, rsync_calls,
                   error_message, folded, setup_calls>>

\* launch_analysis_for_flowcells(projects_to_analyze)
launch ==
    /\ pc = "loop"
    /\ todo = {}
    /\ ~ no_projects
    /\ launched' = Append(launched, values(projects_to_analyze))
    /\ pc' = "done"
    /\ outcome' = "launched"
    /\ UNCHANGED <<args, inputs, env, todo, projects_to_analyze, locals, rsync_calls,
                   error_message, folded, setup_calls>>

\* ------------------------------------------------------------------------
Next ==
    \/ process_demultiplexed_flowcell_exit
    \/ process_demultiplexed_flowcells_begin
    \/ setup_top_dir_missing
    \/ setup_fc_dir_missing
    \/ setup_parse_error
    \/ setup_parsed
    \/ project_skipped
    \/ project_lookup_failed
    \/ project_setup
    \/ project_type_error
    \/ setup_return
    \/ sample_skipped
    \/ sample_setup
    \/ samples_done
    \/ fastq_assigned
    \/ libprep_lookup_raised
    \/ fastq_done
    \/ rsync_call
    \/ rsync_name_error
    \/ rsync_done
    \/ no_projects_exit
    \/ launch

Spec == Init /\ [][Next]_vars

\* ------------------------------------------------------------------------
\* Vocabulary of the properties

\* the manifest of a flowcell directory that has been read and parses
Manifest(fc) == parse_casava_directory(fc, fs[fc])
FcName(fc) == fs[fc].metrics.runparams.FCPosition \o fs[fc].metrics.run_info.Flowcell
Parsed(fc) == fc \in DOMAIN fs /\ fs[fc].exists /\ ~ parse_raises(fs[fc])

\* the name the builder gives the sample of a manifest entry
BuilderSampleName(se) == Replace(se.sample_name, <<"_","_">>, <<".">>)

\* number of nodes called name in a list of nodes
Count(nodes, name) == Cardinality({i \in 1..Len(nodes) : nodes[i].name = name})

\* the Project nodes of the tree called name
ProjectsNamed(name) ==
    {k \in DOMAIN projects_to_analyze.items : projects_to_analyze.items[k].name = name}

Asked(key) == key \in DOMAIN charon
LibprepKey(pid, sname, fc) == <<"libprep", pid, sname, FcName(fc)>>

\* the fastq files the flowcell holds for the sample
FastqOf(fc, pname, sname) ==
    UNION {Range(filter_fastq(se.files)) :
             se \in UNION {{x \in Range(pe.samples) : BuilderSampleName(x) = sname} :
                             pe \in {y \in Range(Manifest(fc).projects) :
                                       y.project_name = pname}}}

ProjectNames == {name_A, name_BC}
SampleNames == {name_X, name_YZ}
ProjectIds == {id_A, id_BC}

\* both flowcells are folded into the tree, their ids differ, and the registry
\* gave the same library prep for the sample in both
SameLibprepInBoth(f, g, pid, sname) ==
    /\ f \in folded /\ g \in folded
    /\ f # g
    /\ LET kf == LibprepKey(pid, sname, f)
           kg == LibprepKey(pid, sname, g)
       IN  /\ kf # kg
           /\ Asked(kf) /\ Asked(kg)
           /\ charon[kf].ok
           /\ charon[kf] = charon[kg]

\* the project of the tree with registry id pid
ProjectWithId(pid) ==
    {k \in DOMAIN projects_to_analyze.items :
        projects_to_analyze.items[k].project_id = pid}

\* the name date_flowcellId of the flowcell's run
RunOf(fc) == fs[fc].metrics.run_info.Date \o <<"_">> \o FcName(fc)

\* one Project, one Sample, one LibraryPrep, and below it one run per
\* flowcell holding that flowcell's files
AggregatedUnder(k, f, g, pid, sname) ==
    LET P == projects_to_analyze.items[k]
        lname == charon[LibprepKey(pid, sname, f)].val
    IN  /\ Cardinality(ProjectsNamed(P.name)) = 1
        /\ Count(P.samples, sname) = 1
        /\ LET S == P.samples[IndexOf(P.samples, sname)]
           IN  /\ Count(S.subitems, lname) = 1
               /\ LET L == S.subitems[IndexOf(S.subitems, lname)]
                  IN  /\ RunOf(f) # RunOf(g)
                      /\ \A h \in {f, g} :
                            /\ Count(L.subitems, RunOf(h)) = 1
                            /\ Range(L.subitems[IndexOf(L.subitems, RunOf(h))].subitems)
                                 = FastqOf(h, P.name, sname)

\* C1: when two flowcells with different flowcell ids have both been folded
\* into the tree and the registry resolved the same library prep for a sample
\* of a project in both, the tree holds one Project, one Sample and one
\* LibraryPrep node for them, and that LibraryPrep has two distinct
\* SequencingRun children named date_flowcellId, each listing exactly the
\* fastq files of its own flowcell.
C1_Aggregation ==
    \A f \in folded, g \in folded, pid \in ProjectIds, sname \in SampleNames :
        SameLibprepInBoth(f, g, pid, sname) =>
            /\ Cardinality(ProjectWithId(pid)) = 1
            /\ \A k \in ProjectWithId(pid) : AggregatedUnder(k, f, g, pid, sname)

C1_Witness ==
    /\ outcome = "launched"
    /\ SameLibprepInBoth(r1, r2, id_A, name_X)
    /\ FastqOf(r1, name_A, name_X) # FastqOf(r2, name_A, name_X)

\* ------------------------------------------------------------------------
\* a flowcell is skipped: its directory is missing or its run metrics do not
\* parse, and the loop goes on to the next one
FlowcellSkipped == setup_fc_dir_missing \/ setup_parse_error

\* C2: when parsing one flowcell fails, only that flowcell is skipped: the
\* shared tree keeps every project accumulated before it, and the flowcells
\* after it are still folded into the tree (no later flowcell fails on the
\* tree the skipped one left behind).
C2_ParseFailureIsolation ==
    [][/\ FlowcellSkipped => values(projects_to_analyze') = values(projects_to_analyze)
       /\ outcome' # "TypeError"]_vars

\* ------------------------------------------------------------------------
\* every run of the tree lists each file name once
NoDuplicateFiles ==
    \A k \in DOMAIN projects_to_analyze.items :
        \A si \in 1..Len(projects_to_analyze.items[k].samples) :
            LET S == projects_to_analyze.items[k].samples[si]
            IN  \A li \in 1..Len(S.subitems) :
                    \A ri \in 1..Len(S.subitems[li].subitems) :
                        LET files == S.subitems[li].subitems[ri].subitems
                        IN  Cardinality(Range(files)) = Len(files)

\* the flowcell being folded has the manifest of a flowcell that is already
\* folded into the tree: same run metrics, same projects, samples and files
Refolding ==
    /\ pc \in {"project", "sample", "file", "rsync"}
    /\ \E f \in folded :
          /\ f # fc_dir_structure.fc_dir
          /\ Manifest(f).fc_name = fc_dir_structure.fc_name
          /\ Manifest(f).fc_date = fc_dir_structure.fc_date
          /\ Manifest(f).projects = fc_dir_structure.projects

\* C3: folding a manifest into the tree and the directories that folding the
\* same manifest left behind changes neither the tree (projects, samples,
\* library preps, runs, file lists) nor the directories, raises no error, and
\* no run lists a file name twice.
C3_Idempotence ==
    /\ [](Refolding => NoDuplicateFiles)
    /\ [][Refolding => /\ projects_to_analyze' = projects_to_analyze
                       /\ disk' = disk
                       /\ outcome' = "running"]_vars

\* a file is being assigned a second time
C3_Witness ==
    /\ Refolding
    /\ pc = "rsync"
    /\ fastq_files # <<>>
    /\ rsync_calls # <<>>

\* ------------------------------------------------------------------------
\* the do_rsync calls made for the sample under the cursor in this call of
\* setup_analysis_directory_structure
CallsForSample ==
    {i \in 1..Len(rsync_calls) :
        /\ rsync_calls[i].fc_dir = fc_dir_structure.fc_dir
        /\ rsync_calls[i].project_dir = project_dir
        /\ rsync_calls[i].sample_name = sample_name}

\* the rsync loop of the sample under the cursor has ended
SampleFinished == pc = "rsync" /\ libprep_idx > Len(sample_obj.subitems)

\* C4: when a sample with fastq files has been processed, the transfer agent
\* has been called exactly once for it, also when the sample has more than
\* one LibraryPrep node in the shared tree.
C4_OneTransferPerSample ==
    (SampleFinished /\ fastq_files # <<>>) => Cardinality(CallsForSample) = 1

\* ------------------------------------------------------------------------
\* C5: a failing library-prep lookup skips the file and the build goes on:
\* no ValueError of the registry ends the batch.
C5_LibprepLookupFailureSkipsFile == outcome # ValueError

\* ------------------------------------------------------------------------
ProjectKey(name) == <<"project", name>>

\* the registry refuses the project under the cursor in this step
ProjectLookupFails ==
    /\ pc = "project"
    /\ project_idx <= Len(fc_dir_structure.projects)
    /\ (restrict_to_projects = <<>> \/ project_name \in Range(restrict_to_projects))
    /\ ProjectKey(project_name) \in DOMAIN charon'
    /\ ~ charon'[ProjectKey(project_name)].ok

\* no Project node, and no directory, for a project the registry refused
RefusedProjectsAbsent ==
    \A name \in ProjectNames :
        (Asked(ProjectKey(name)) /\ ~ charon[ProjectKey(name)].ok) =>
            /\ ProjectsNamed(name) = {}
            /\ Join(Join(top_dir, DATA), name) \notin disk
            /\ \A i \in 1..Len(rsync_calls) :
                  rsync_calls[i].project_dir # Join(Join(top_dir, DATA), name)

\* C6: when the registry lookup of a project's id fails with a RuntimeError
\* or a ValueError, that project alone is skipped: the tree, the directories
\* and the transfers stay as they are, the loop moves on to the next project
\* of the manifest, and the flowcells still to come stay to be processed.
C6_ProjectLookupFailureSkipsProject ==
    /\ []RefusedProjectsAbsent
    /\ [][ProjectLookupFails =>
            /\ projects_to_analyze' = projects_to_analyze
            /\ disk' = disk
            /\ rsync_calls' = rsync_calls
            /\ outcome' = "running"
            /\ pc' = "project"
            /\ project_idx' = project_idx + 1
            /\ todo' = todo]_vars

\* a project was refused and a later project was folded and launched
C6_Witness ==
    /\ outcome = "launched"
    /\ \E name \in ProjectNames :
          Asked(ProjectKey(name)) /\ ~ charon[ProjectKey(name)].ok

\* ------------------------------------------------------------------------
\* the project names of the manifests read so far
ManifestProjectNames ==
    UNION {{pe.project_name : pe \in Range(Manifest(fc).projects)} :
             fc \in {d \in DOMAIN fs : Parsed(d)}}

\* the project passes restrict_to_projects and the registry knows it
Admitted(name) ==
    /\ (restrict_to_projects = <<>> \/ name \in Range(restrict_to_projects))
    /\ Asked(ProjectKey(name))
    /\ charon[ProjectKey(name)].ok

\* C7: a tree built from the empty tree holds a Project node only for
\* manifest projects that pass restrict_to_projects (every project when the
\* list is empty) and whose registry lookup succeeds, and it holds one for
\* every such project of every manifest folded into it.
C7_ProjectFiltering ==
    /\ \A k \in DOMAIN projects_to_analyze.items :
          LET name == projects_to_analyze.items[k].name
          IN  /\ name \in ManifestProjectNames
              /\ Admitted(name)
              /\ k = Join(Join(top_dir, DATA), name)
    /\ \A f \in folded :
          \A pe \in Range(Manifest(f).projects) :
              Admitted(pe.project_name) =>
                  Join(Join(top_dir, DATA), pe.project_name)
                      \in DOMAIN projects_to_analyze.items

\* restricted to A, a manifest with A and B.C is folded: only A is launched
C7_Witness ==
    /\ outcome = "launched"
    /\ restrict_to_projects = <<name_A>>
    /\ \E f \in folded :
          {name_A, name_BC} \subseteq {pe.project_name : pe \in Range(Manifest(f).projects)}
    /\ DOMAIN projects_to_analyze.items = {Join(Join(top_dir, DATA), name_A)}

\* ------------------------------------------------------------------------
\* the run ended because no project was found
FatalEmpty ==
    outcome = "exit" /\ error_message \in {"no_projects_restricted", "no_projects_found"}

\* C8 as stated: the fatal message is the restricted one whenever a
\* restriction list (projects or samples) was non-empty, and the
\* nothing-found one only when no restriction was given.
C8_AsStated ==
    FatalEmpty =>
        (error_message = "no_projects_restricted"
            <=> (restrict_to_projects # <<>> \/ restrict_to_samples # <<>>))

\* C8 (amended): the fatal message is the restricted one exactly when
\* restrict_to_projects was non-empty; restrict_to_samples has no part in it.
C8_FatalEmptyMessage ==
    FatalEmpty =>
        (error_message = "no_projects_restricted" <=> restrict_to_projects # <<>>)

\* no project found, samples restricted, projects not
C8_Witness ==
    /\ FatalEmpty
    /\ restrict_to_samples # <<>>
    /\ restrict_to_projects = <<>>
    /\ fs # EmptyFn

\* ------------------------------------------------------------------------
\* what holds of the launcher's calls in every state
LaunchGate ==
    /\ Len(launched) <= 1
    /\ outcome = "launched" <=> Len(launched) = 1
    /\ launched # <<>> =>
          /\ todo = {}
          /\ pc = "done"
          /\ launched[1] # {}
          /\ launched[1] = values(projects_to_analyze)
    /\ FatalEmpty => values(projects_to_analyze) = {} /\ todo = {}

\* C9: once every flowcell has been processed the orchestrator ends in one of
\* two ways: a fatal exit when the project set is empty, or one call of the
\* launcher with the final projects when it is not; the launcher is never
\* called with an empty set nor while a flowcell is still to be folded.
C9_LaunchGating ==
    /\ []LaunchGate
    /\ [][(pc = "loop" /\ todo = {}) =>
            \/ /\ values(projects_to_analyze) = {}
               /\ outcome' = "exit"
               /\ launched' = launched
            \/ /\ values(projects_to_analyze) # {}
               /\ outcome' = "launched"
               /\ launched' = <<values(projects_to_analyze)>>]_vars

\* two flowcells were folded and the launcher was called
C9_Witness ==
    /\ outcome = "launched"
    /\ Cardinality(folded) = 2

\* ------------------------------------------------------------------------
\* fastq naming: extension fastq or fq, optionally followed by .gz, .gzip
\* or .bz2
FastqNaming(name) ==
    \E ext \in {<<"f","a","s","t","q">>, <<"f","q">>} :
        \E comp \in {<<>>, <<".","g","z">>, <<".","g","z","i","p">>, <<".","b","z","2">>} :
            EndsWith(name, <<".">> \o ext \o comp)

\* the files the manifest records for a sample directory of a flowcell
RecordedFiles(fc, pdir, sdir) ==
    UNION {UNION {Range(se.files) : se \in {x \in Range(pe.samples) : x.sample_dir = sdir}} :
             pe \in {y \in Range(Manifest(fc).projects) : y.project_dir = pdir}}

\* C10: for every sample directory the parser records every file with fastq
\* naming in the manifest.
C10_FastqCollection ==
    \A fc \in DOMAIN fs :
        Parsed(fc) =>
            \A pd \in {x \in Range(fs[fc].unaligned) : IsProjectDir(x)} :
                \A sd \in {y \in Range(pd.samples) : IsSampleDir(y)} :
                    \A name \in Range(sd.files) :
                        FastqNaming(name) => name \in RecordedFiles(fc, pd.dir, sd.dir)

\* ------------------------------------------------------------------------
SingleEntry == entry = "process_demultiplexed_flowcell"
DistinctDirs == Cardinality(Range(demux_fcid_dirs))

\* the single-flowcell entry point refused its arguments
RefusedMany == outcome = "exit" /\ error_message = "only_one_flowcell"

\* nothing of process_demultiplexed_flowcells has happened
NothingDone ==
    /\ demux_fcid_dirs_set = {}
    /\ todo = {}
    /\ fs = EmptyFn
    /\ charon = EmptyFn
    /\ disk \subseteq {top_dir}
    /\ rsync_calls = <<>>
    /\ launched = <<>>
    /\ folded = {}

\* C11: with more than one distinct flowcell directory the single-flowcell
\* entry point ends with a fatal error before the multi-flowcell entry point
\* is invoked (nothing is parsed, looked up, created or transferred); with one
\* distinct directory, repeated or not, it delegates to the multi-flowcell
\* entry point.
C11_SingleFlowcellEntry ==
    /\ [](RefusedMany => SingleEntry /\ DistinctDirs > 1 /\ NothingDone)
    /\ [][(pc = "start" /\ SingleEntry) =>
            IF DistinctDirs > 1
            THEN outcome' = "exit" /\ error_message' = "only_one_flowcell"
            ELSE /\ pc' = "loop"
                 /\ outcome' = "running"
                 /\ todo' = Range(demux_fcid_dirs)]_vars

C11_Witness == RefusedMany /\ demux_fcid_dirs = <<r1, r2>>

\* ------------------------------------------------------------------------
\* the flowcell directories given, each once
GivenDirs == IF pc = "start" THEN Range(demux_fcid_dirs) ELSE demux_fcid_dirs_set

\* every directory is set up at most once, and only a directory that was given
SetUpOnce ==
    \A fc \in FcDirs :
        /\ setup_calls[fc] <= 1
        /\ setup_calls[fc] = 1 => fc \in GivenDirs \ todo
        /\ fc \in DOMAIN fs => setup_calls[fc] = 1

\* C12: a flowcell directory that appears more than once in the argument list
\* is iterated, parsed and folded once: the loop runs over the set of the
\* directories, each call of setup_analysis_directory_structure takes one
\* directory out of it, and no directory is set up twice in a build.
C12_InputDeduplication ==
    /\ []SetUpOnce
    /\ [][/\ (pc = "start" /\ pc' = "loop") => todo' = Range(demux_fcid_dirs)
          /\ pc # "start" => todo' \subseteq todo
          /\ setup_calls' # setup_calls =>
                \E fc \in todo :
                    /\ todo' = todo \ {fc}
                    /\ setup_calls' = [setup_calls EXCEPT ![fc] = 1]]_vars

\* r1 was given twice, and was folded and launched after one setup call
C12_Witness ==
    /\ outcome = "launched"
    /\ demux_fcid_dirs = <<r1, r1>>
    /\ setup_calls[r1] = 1
    /\ rsync_calls # <<>>

\* ------------------------------------------------------------------------
\* the SequencingRun nodes of the tree, by position
RunPositions ==
    UNION {UNION {UNION {
        {[k |-> k, si |-> si, li |-> li, ri |-> ri] :
            ri \in 1..Len(projects_to_analyze.items[k].samples[si].subitems[li].subitems)} :
        li \in 1..Len(projects_to_analyze.items[k].samples[si].subitems)} :
        si \in 1..Len(projects_to_analyze.items[k].samples)} :
        k \in DOMAIN projects_to_analyze.items}

SampleAt(pos) == projects_to_analyze.items[pos.k].samples[pos.si]
LibprepAt(pos) == SampleAt(pos).subitems[pos.li]
RunAt(pos) == LibprepAt(pos).subitems[pos.ri]

ParsedDirs == {fc \in DOMAIN fs : Parsed(fc)}

\* at most one SequencingRun per key below each LibraryPrep
OneRunPerKey ==
    \A pos \in RunPositions : Count(LibprepAt(pos).subitems, RunAt(pos).name) = 1

\* every run is the run of a flowcell that was read, and lists only files
\* that a flowcell with that run key holds for the run's project and sample
RunsHoldOwnFiles ==
    \A pos \in RunPositions :
        LET own == {fc \in ParsedDirs : RunOf(fc) = RunAt(pos).name}
        IN  /\ own # {}
            /\ Range(RunAt(pos).subitems) \subseteq
                  UNION {FastqOf(fc, projects_to_analyze.items[pos.k].name,
                                 SampleAt(pos).name) : fc \in own}

\* a sample's files of one run key are below one LibraryPrep only
OneRunPerDelivery ==
    \A pos \in RunPositions, other \in RunPositions :
        (other.k = pos.k /\ other.si = pos.si /\ RunAt(other).name = RunAt(pos).name)
            => other = pos

\* C13 as stated: every fastq file name recorded for a sample belongs to
\* exactly one SequencingRun, also when two flowcells deliver files with the
\* same name for the same sample.
C13_AsStated ==
    \A pos \in RunPositions, other \in RunPositions :
        (other.k = pos.k /\ other.si = pos.si
         /\ Range(RunAt(other).subitems) \cap Range(RunAt(pos).subitems) # {})
            => other = pos

\* C13 (amended): each LibraryPrep has at most one SequencingRun per key
\* date_flowcellId; every file a flowcell delivers for a sample is recorded
\* in one SequencingRun only, the one keyed by its own flowcell, and is listed
\* there once; a file name that two flowcells deliver for the same sample is
\* listed in the run of each.
C13_SequencingRunInvariant ==
    /\ OneRunPerKey
    /\ NoDuplicateFiles
    /\ RunsHoldOwnFiles
    /\ OneRunPerDelivery

\* both flowcells delivered a.fastq.gz for sample X of project A
C13_Witness ==
    /\ outcome = "launched"
    /\ folded = {r1, r2}
    /\ RunOf(r1) # RunOf(r2)
    /\ \E pos \in RunPositions, other \in RunPositions :
          /\ other.k = pos.k /\ other.si = pos.si
          /\ RunAt(pos).name = RunOf(r1)
          /\ RunAt(other).name = RunOf(r2)
          /\ a_fastq_gz \in Range(RunAt(pos).subitems) \cap Range(RunAt(other).subitems)

\* ------------------------------------------------------------------------
\* the analysis top directory is missing
RootMissing == top_dir \notin disk

\* no flowcell read, no registry lookup, no directory made, no transfer, no
\* launch
NothingTouched ==
    /\ fs = EmptyFn
    /\ charon = EmptyFn
    /\ disk = {}
    /\ rsync_calls = <<>>
    /\ launched = <<>>
    /\ projects_to_analyze = Dict(EmptyFn)

\* C14: when the analysis top directory does not exist, the first call of
\* setup_analysis_directory_structure raises OSError, which ends the run for
\* every flowcell of the batch; up to then no flowcell is read, no registry
\* lookup is made, no directory is created and no transfer is invoked.
C14_MissingAnalysisRoot ==
    /\ [](RootMissing => /\ NothingTouched
                         /\ outcome \in {"running", "OSError", "exit"}
                         /\ outcome = "exit" => RefusedMany
                         /\ pc \in {"start", "loop", "done"})
    /\ [](outcome = "OSError" => RootMissing /\ pc = "done")
    /\ [][(RootMissing /\ pc = "loop") =>
             /\ outcome' = "OSError"
             /\ pc' = "done"
             /\ UNCHANGED <<env, rsync_calls, launched, projects_to_analyze>>]_vars

\* the batch of two distinct flowcells ends at the first of them
C14_Witness ==
    /\ outcome = "OSError"
    /\ demux_fcid_dirs_set = {r1, r2}
    /\ Cardinality(todo) = 1
    /\ NothingTouched

\* ------------------------------------------------------------------------
\* the project directories and their sample directories under Unaligned
ProjectDirsOf(fc) == SelectSeq(fs[fc].unaligned, IsProjectDir)
SampleDirsOf(pd) == SelectSeq(pd.samples, IsSampleDir)

\* the flowcell holds one project with one sample
OneProjectOneSample(fc) ==
    /\ Parsed(fc)
    /\ Len(ProjectDirsOf(fc)) = 1
    /\ Len(SampleDirsOf(ProjectDirsOf(fc)[1])) = 1

\* the sample's files with fastq naming, in the order of the directory listing
FastqFilesOf(fc) == SelectSeq(SampleDirsOf(ProjectDirsOf(fc)[1])[1].files, FastqNaming)

LookupsSucceeded == \A key \in DOMAIN charon : charon[key].ok

\* one Project, one Sample, one LibraryPrep and one SequencingRun listing files
OneOfEach(files) ==
    /\ Cardinality(DOMAIN projects_to_analyze.items) = 1
    /\ \A k \in DOMAIN projects_to_analyze.items :
         LET P == projects_to_analyze.items[k]
         IN  /\ Len(P.samples) = 1
             /\ Len(P.samples[1].subitems) = 1
             /\ Len(P.samples[1].subitems[1].subitems) = 1
             /\ P.samples[1].subitems[1].subitems[1].subitems = files

\* C15: for one flowcell holding one project with one sample of n >= 1 fastq
\* files, with no restriction and successful registry lookups, the launched
\* tree has one Project, one Sample, one LibraryPrep and one SequencingRun,
\* whose file list is the n file names in the order of discovery.
C15_EndToEndSingle ==
    \A fc \in FcDirs :
        (/\ outcome = "launched"
         /\ demux_fcid_dirs_set = {fc}
         /\ restrict_to_projects = <<>>
         /\ restrict_to_samples = <<>>
         /\ OneProjectOneSample(fc)
         /\ LookupsSucceeded
         /\ FastqFilesOf(fc) # <<>>)
            => OneOfEach(FastqFilesOf(fc))

\* ------------------------------------------------------------------------
\* Names of project and sample directories
\*
\* parse_casava_directory and setup_analysis_directory_structure turn a
\* directory name into a name with .replace('__', '.'); here the two are
\* applied to a flowcell whose project and sample directory are called
\* Project_<dir_name> and Sample_<dir_name>, for every dir_name over
\* NameAlphabet of at most MaxName characters.

NameAlphabet == {"_", ".", "a"}
DirNames(n) == UNION {[1..k -> NameAlphabet] : k \in 0..n}

NamedContent ==
    [exists |-> TRUE, metrics |-> RunMetrics1,
     unaligned |-> <<ProjectDir(Project_ \o dir_name,
                                <<SampleDir(Sample_ \o dir_name, <<a_fastq_gz>>)>>)>>]

InitNames ==
    /\ entry = "process_demultiplexed_flowcells"
    /\ demux_fcid_dirs = <<r1>>
    /\ demux_fcid_dirs_set = {}
    /\ restrict_to_projects = <<>>
    /\ restrict_to_samples = <<>>
    /\ disk = {top_dir}
    /\ fs = EmptyFn
    /\ charon = EmptyFn
    /\ pc = "start"
    /\ todo = {}
    /\ projects_to_analyze = Dict(EmptyFn)
    /\ fc_dir_structure = NoStructure
    /\ project_idx = 0
    /\ sample_idx = 0
    /\ fastq_idx = 0
    /\ libprep_idx = 0
    /\ project_id = None
    /\ fastq_files = <<>>
    /\ seqrun_object = Unbound
    /\ seqrun_dir = None
    /\ rsync_calls = <<>>
    /\ launched = <<>>
    /\ outcome = "running"
    /\ error_message = "none"
    /\ folded = {}
    /\ setup_calls = [fc \in FcDirs |-> 0]
    /\ dir_name \in DirNames(MaxName)
    /\ named = NoNames

\* parse_casava_directory, lines 255-286: the names of the manifest
parse_names ==
    /\ fc_dir_structure = NoStructure
    /\ fc_dir_structure' = parse_casava_directory(r1, NamedContent)
    /\ project_idx' = 1
    /\ sample_idx' = 1
    /\ UNCHANGED <<args, inputs, env, pc, todo, projects_to_analyze, fastq_idx,
                   libprep_idx, project_id, fastq_files, seqrun_object, seqrun_dir,
                   outputs, folded, setup_calls>>

\* setup_analysis_directory_structure, lines 121 and 150-151: the names the
\* nodes of the tree get
build_names ==
    /\ fc_dir_structure # NoStructure
    /\ ~ named.built
    /\ named' = [built |-> TRUE, project_name |-> project_name,
                 sample_name |-> sample_name]
    /\ UNCHANGED <<args, entry, restrict_to_projects, restrict_to_samples, dir_name,
                   env, pc, todo, projects_to_analyze, locals, outputs, folded,
                   setup_calls>>

NextNames == parse_names \/ build_names

NormalizeSpec == InitNames /\ [][NextNames]_vars

HasDoubleUnderscore(name) ==
    \E i \in 1..(Len(name) - 1) : name[i] = "_" /\ name[i + 1] = "_"

\* x is r with some of its dots written as a double underscore
RECURSIVE DotsFor(_, _)
DotsFor(r, x) ==
    IF r = <<>> THEN x = <<>>
    ELSE IF x = <<>> THEN FALSE
    ELSE \/ Head(r) = Head(x) /\ DotsFor(Tail(r), Tail(x))
         \/ /\ Head(r) = "."
            /\ StartsWith(x, <<"_", "_">>)
            /\ DotsFor(Tail(r), Tail_n(x, 2))

\* canonical is raw with every double underscore replaced by one dot
Normalized(canonical, raw) ==
    /\ ~ HasDoubleUnderscore(canonical)
    /\ DotsFor(canonical, raw)

\* C16: the name the parser records for a project or sample directory is the
\* directory's name (after its prefix) with every double underscore replaced by
\* a single dot; replacing once more, as the builder does for sample names,
\* changes nothing; no name of the manifest or of the tree holds a double
\* underscore.
C16_NameNormalization ==
    /\ fc_dir_structure # NoStructure =>
          /\ Len(fc_dir_structure.projects) = 1
          /\ Len(fc_dir_structure.projects[1].samples) = 1
          /\ Normalized(fc_dir_structure.projects[1].project_name, dir_name)
          /\ Normalized(fc_dir_structure.projects[1].samples[1].sample_name, dir_name)
    /\ named.built =>
          /\ named.project_name = fc_dir_structure.projects[1].project_name
          /\ named.sample_name = fc_dir_structure.projects[1].samples[1].sample_name
          /\ ~ HasDoubleUnderscore(named.project_name)
          /\ ~ HasDoubleUnderscore(named.sample_name)

\* a name with three underscores in a row
C16_Witness ==
    /\ named.built
    /\ dir_name = <<"a", "_", "_", "_">>
    /\ named.sample_name = <<"a", ".", "_">>
    /\ named.project_name = <<"a", ".", "_">>

\* ------------------------------------------------------------------------
\* the manifest entries (project, sample) a do_rsync call was made for
EntriesOf(call) ==
    UNION {{[project |-> pe, sample |-> se] :
              se \in {x \in Range(pe.samples) : BuilderSampleName(x) = call.sample_name}} :
           pe \in {y \in Range(Manifest(call.fc_dir).projects) :
                     Join(Join(top_dir, DATA), y.project_name) = call.project_dir}}

\* every source path is a file the manifest lists for the sample, below the
\* sample's directory in the flowcell
SourcesOfSample(call) ==
    \E e \in EntriesOf(call) :
        \A i \in 1..Len(call.src) :
            \E f \in Range(e.sample.files) :
                call.src[i] =
                    Join(Join(Join(Join(call.fc_dir, e.project.data_dir),
                                   e.project.project_dir), e.sample.sample_dir), f)

\* C17: every do_rsync call made for a sample uses a run made or touched for
\* that sample, source paths that name files of that sample, and a destination
\* that is an existing run directory; the transfer loop never stops on an
\* unassigned run, also for a sample without fastq files in this manifest
\* that has a LibraryPrep in the tree already.
C17_TransferArguments ==
    /\ outcome # "NameError"
    /\ \A i \in 1..Len(rsync_calls) :
          LET call == rsync_calls[i]
          IN  /\ call.run.project_dir = call.project_dir
              /\ call.run.sample = call.sample_name
              /\ SourcesOfSample(call)
              /\ call.dst # None
              /\ call.dst \in disk

\* ------------------------------------------------------------------------
\* the directories of the nodes of the tree, each below its parent's
ProjectPath(P) == Join(Join(P.base_path, DATA), P.dirname)

NodePaths ==
    UNION {LET P == projects_to_analyze.items[k]
               pp == ProjectPath(P)
           IN  {pp}
               \cup UNION {LET S == P.samples[si]
                               sp == Join(pp, S.dirname)
                           IN  {sp}
                               \cup UNION {LET L == S.subitems[li]
                                               lp == Join(sp, L.dirname)
                                           IN  {lp} \cup {Join(lp, L.subitems[ri].dirname) :
                                                            ri \in 1..Len(L.subitems)}
                                           : li \in 1..Len(S.subitems)}
                           : si \in 1..Len(P.samples)}
           : k \in DOMAIN projects_to_analyze.items}

\* every node has its directory, and a Project is filed under its directory
TreeOnDisk ==
    /\ NodePaths \subseteq disk
    /\ \A k \in DOMAIN projects_to_analyze.items :
          /\ ProjectPath(projects_to_analyze.items[k]) = k
          /\ projects_to_analyze.items[k].base_path = top_dir

\* C18: every Project, Sample, LibraryPrep and SequencingRun node of the tree
\* has its directory on disk at
\* <top_dir>/DATA/<project>/<sample>/<libprep>/<date>_<fcid>, cut at the level
\* of the node; no directory is ever removed, and a step that finds the
\* directory of a project or a sample there already leaves the disk as it is
\* and goes on with the node in the tree.
C18_TreeMirrorsDisk ==
    /\ []TreeOnDisk
    /\ [][/\ disk \subseteq disk'
          /\ (pc = "project" /\ pc' = "sample" /\ project_dir \in disk) =>
                /\ disk' = disk
                /\ outcome' = "running"
                /\ project_dir \in DOMAIN projects_to_analyze'.items
          /\ (pc = "sample" /\ pc' = "file" /\ Join(project_dir, sample_name) \in disk) =>
                /\ disk' = disk
                /\ outcome' = "running"
                /\ IndexOf(projects_to_analyze'.items[project_dir].samples,
                           sample_name) > 0]_vars

\* two flowcells were folded into one project, the second finding the
\* directories of the first
C18_Witness ==
    /\ outcome = "launched"
    /\ folded = {r1, r2}
    /\ RunOf(r1) = RunOf(r2)
    /\ Cardinality(DOMAIN projects_to_analyze.items) = 1
    /\ Cardinality(RunPositions) = 1
    /\ Len(rsync_calls) = 2
    /\ TreeOnDisk

\* ------------------------------------------------------------------------
\* every Sample of the tree is named in restrict_to_samples
OnlyRestrictedSamples ==
    \A k \in DOMAIN projects_to_analyze.items :
        \A si \in 1..Len(projects_to_analyze.items[k].samples) :
            projects_to_analyze.items[k].samples[si].name \in Range(restrict_to_samples)

\* the project has a Sample with a SequencingRun
HasRun(P) ==
    \E si \in 1..Len(P.samples) :
        \E li \in 1..Len(P.samples[si].subitems) :
            Len(P.samples[si].subitems[li].subitems) >= 1

\* C19: with restrict_to_samples given, the tree holds no Sample named outside
\* it, and every Project handed to launch_analysis_for_flowcells has a Sample
\* with a SequencingRun.
C19_SampleFilteringNonEmptyProjects ==
    /\ restrict_to_samples # <<>> => OnlyRestrictedSamples
    /\ \A i \in 1..Len(launched) : \A P \in launched[i] : HasRun(P)
====
